---- MODULE Spec2Model ----
(***************************************************************************)
(* Model of src/mirco-benchmark.ipynb: the walltime measurement harness    *)
(* (torch.utils.benchmark.Timer(...).blocked_autorange(...).median), the   *)
(* three sweep drivers of the notebook (matmul cell, elementwise cell,     *)
(* layer_benchmark) and the cost formulas they divide by the latency.      *)
(*                                                                         *)
(* Time is counted in ticks of 100 microseconds.  Python integers are      *)
(* unbounded, so the FLOP counts are kept as naturals in limbs of base     *)
(* 1000, least significant limb first: 4,294,967,296 is <<296,967,294,4>>. *)
(* A throughput cell cost / t / 10^scale is kept as the exact triple       *)
(* [cost, t, scale]; the rounding of the float division is not modelled.   *)
(***************************************************************************)
EXTENDS Integers, Sequences, FiniteSets, TLC

(* ------------------------------------------------------------------ *)
(* Bounds of the model                                                  *)
(* ------------------------------------------------------------------ *)

\* Longest seq_lens / batch_sizes list passed to layer_benchmark.
MaxLen == 2

\* Ticks per second (a tick is 100 microseconds).
TicksPerSecond == 10000

\* Longest seq_lens / batch_sizes list in the runs checked for termination.
MaxFairLen == 1

\* Most names bound in the frame of a direct var_dict caller.
MaxLocals == 3

\* Values the lists passed to layer_benchmark are drawn from.
SeqLenValues == {128, 512}
BatchValues == {2, 4}
HiddenSizes == {768, 1024}

\* duration arguments of a direct walltime call (5 is the default).
DurationArgs == {1, 5}

\* Mean duration of one execution of the statement within a batch, in ticks.
ExecTimes == {10000, 20000}

\* A statement short enough for a batch of ten to stay below the default
\* min_run_time.
ShortExecTimes == {2500}

\* The machine of a sweep runs every batch at the same speed.
SweepSpeeds == {{d} : d \in ExecTimes \cup ShortExecTimes}

\* The speed of the machine layer_benchmark runs on.
LayerSpeeds == {{20000}}

\* What the backward pass adds to one execution of the forward statement on
\* that machine, in ticks.
BackwardTimes == {10000}

\* What one timeit(0) call (the timer's own overhead) can measure, in ticks.
OverheadTimes == {0, 2}

\* The machine that runs the short statement has the slower clock: its
\* timeit(0) never measures 0 ticks.
SlowClockTimes == {2}

\* Error classes the measured statement can raise.
ErrorClasses == {"RuntimeError", "TypeError"}

(* ------------------------------------------------------------------ *)
(* Python integers: naturals in base-1000 limbs                         *)
(* ------------------------------------------------------------------ *)

RECURSIVE Big(_)
Big(n) == IF n < 1000 THEN <<n>> ELSE <<n % 1000>> \o Big(n \div 1000)

RECURSIVE MulCarry(_, _, _)
MulCarry(x, k, c) ==
    IF x = <<>>
    THEN IF c = 0 THEN <<>> ELSE Big(c)
    ELSE LET v == Head(x) * k + c
         IN  <<v % 1000>> \o MulCarry(Tail(x), k, v \div 1000)

RECURSIVE Trim(_)
Trim(x) ==
    IF Len(x) > 1 /\ x[Len(x)] = 0 THEN Trim(SubSeq(x, 1, Len(x) - 1)) ELSE x

\* x * k for a machine-sized k
BigMul(x, k) == Trim(MulCarry(x, k, 0))

RECURSIVE AddCarry(_, _, _)
AddCarry(x, y, c) ==
    IF x = <<>> /\ y = <<>>
    THEN IF c = 0 THEN <<>> ELSE <<c>>
    ELSE LET a == IF x = <<>> THEN 0 ELSE Head(x)
             b == IF y = <<>> THEN 0 ELSE Head(y)
             v == a + b + c
         IN  <<v % 1000>> \o AddCarry(IF x = <<>> THEN <<>> ELSE Tail(x),
                                       IF y = <<>> THEN <<>> ELSE Tail(y),
                                       v \div 1000)

BigAdd(x, y) == Trim(AddCarry(x, y, 0))

\* n ** e
RECURSIVE BigPow(_, _)
BigPow(n, e) == IF e = 0 THEN <<1>> ELSE BigMul(BigPow(n, e - 1), n)

(* ------------------------------------------------------------------ *)
(* f-string labels: a label is its prefix followed by the decimal       *)
(* digits of the number                                                 *)
(* ------------------------------------------------------------------ *)

DigitChar(d) == <<"0", "1", "2", "3", "4", "5", "6", "7", "8", "9">>[d + 1]

RECURSIVE Str(_)
Str(n) == IF n < 10 THEN <<DigitChar(n)>> ELSE Str(n \div 10) \o <<DigitChar(n % 10)>>

\* Faulty variant: the label is the f-string without its placeholder.
LabelWithoutValue(prefix, n) == <<prefix>>

Label(prefix, n) == <<prefix>> \o Str(n)

(* ------------------------------------------------------------------ *)
(* defaultdict(lambda: {}) tables: column -> (row -> cell)              *)
(* ------------------------------------------------------------------ *)

EmptyTable == <<>>

HasCell(tbl, col, row) == col \in DOMAIN tbl /\ row \in DOMAIN tbl[col]

\* tbl[col][row] = cell: a missing column is created empty first
Put(tbl, col, row, cell) ==
    LET old == IF col \in DOMAIN tbl THEN tbl[col] ELSE <<>>
        new == [r \in (DOMAIN old) \cup {row} |-> IF r = row THEN cell ELSE old[r]]
    IN  [c \in (DOMAIN tbl) \cup {col} |-> IF c = col THEN new ELSE tbl[c]]

\* cost / t / 10^scale
Cell(cost, t, scale) == [cost |-> cost, t |-> t, scale |-> scale]


(* ------------------------------------------------------------------ *)
(* Tensors and the accelerator                                          *)
(* ------------------------------------------------------------------ *)

\* device='mps' in every torch.randn call of the notebook
Accelerator == "mps"

\* torch.randn(*shape, dtype=dtype, device='mps')
Randn(shape, dtype) == [shape |-> shape, dtype |-> dtype, device |-> Accelerator]

\* Tensor.half()
Half(x) == [x EXCEPT !.dtype = "torch.float16"]

\* Tensor.element_size()
ElementSize(x) == IF x.dtype = "torch.float32" THEN 4 ELSE 2

\* benchmark.Timer is built with the default timer, which Timer replaces by a
\* timer that synchronizes the device only when CUDA is available.
TimerSynchronizes == Accelerator = "cuda"

(* ------------------------------------------------------------------ *)
(* Objects, frames and var_dict                                         *)
(* ------------------------------------------------------------------ *)

\* A Python object: its identity and its value.  Two objects can be equal by
\* value and still be two objects.
Object(id, value) == [id |-> id, value |-> value]

\* An item of f_locals.items(): (name, val)
Item(name, val) == [name |-> name, val |-> val]

\* The objects a direct caller of var_dict holds: objects 1 and 2 are equal by
\* value, object 3 is not.
ObjectIds == 1..3
Objects == {Object(k, [v |-> (k + 1) \div 2]) : k \in ObjectIds}

\* The names of that caller's frame, in the order of f_locals.
LocalNames == <<"x", "y", "z", "u", "v">>

\* The frames of a direct caller: the first n names, each bound to an object.
Frames ==
    UNION {{[k \in 1..n |-> Item(LocalNames[k], f[k])] : f \in [1..n -> Objects]} :
            n \in 0..MaxLocals}

\* The argument lists of a direct var_dict call.
ArgCounts == 1..2
ArgLists == UNION {[1..n -> Objects] : n \in ArgCounts}

\* The object a name of the frame is bound to.
Local(frame, name) == frame[CHOOSE k \in 1..Len(frame) : frame[k].name = name].val

\* Faulty variant: val == arg
IsEqual(val, arg) == val.value = arg.value

\* val is arg
Is(val, arg) == val.id = arg.id

\* [(name, val) for name, val in callers_local_vars if val is arg]
Matching(frame, arg) == SelectSeq(frame, LAMBDA item : Is(item.val, arg))

\* Faulty variant: [...][-1]
LastOf(list) == list[Len(list)]

\* [...][0]
FirstOf(list) == list[1]

\* [...][0] of an empty list raises IndexError
VarDictRaises(frame, arguments) ==
    \E k \in 1..Len(arguments) : Matching(frame, arguments[k]) = <<>>

\* dict(pair for arg in args): a later pair of the same name replaces the
\* earlier one
VarDict(frame, arguments) ==
    LET pair(k) == FirstOf(Matching(frame, arguments[k]))
        names == {pair(k).name : k \in 1..Len(arguments)}
        last(name) == CHOOSE k \in 1..Len(arguments) :
                        /\ pair(k).name = name
                        /\ \A l \in (k + 1)..Len(arguments) : pair(l).name # name
    IN  [name \in names |-> pair(last(name)).val]

(* ------------------------------------------------------------------ *)
(* Cost formulas, evaluated left to right as Python does                *)
(* ------------------------------------------------------------------ *)

\* Faulty variant: 2*n**2
MatmulCostSquare(n) == BigMul(BigPow(n, 2), 2)

\* 2*n**3
MatmulCost(n) == BigMul(BigPow(n, 3), 2)

\* Faulty variant: 4 * n, the bytes of the tensor alone
VectorBytesOnce(n) == BigMul(Big(4), n)

\* the literal 8 of the 'GB/s' line: 8 * n
VectorBytes(n) == BigMul(Big(8), n)

\* Faulty variant: 8*b*s*h*h, the cost of one of the two dense layers
FfnCostOneDense(b, s, h) == BigMul(BigMul(BigMul(BigMul(Big(8), b), s), h), h)

\* 16*b*s*h*h
FfnCost(b, s, h) == BigMul(BigMul(BigMul(BigMul(Big(16), b), s), h), h)

\* 4*b*h*s*s + 8*b*s*h*h
AttenCost(b, s, h) ==
    BigAdd(BigMul(BigMul(BigMul(BigMul(Big(4), b), h), s), s),
           BigMul(BigMul(BigMul(BigMul(Big(8), b), s), h), h))

\* Faulty variant: the cross attention of the decoder is not counted.
ForwardCostSelfAttentionOnly(f, a, cross) == BigAdd(f, a)

\* ffn + (2 if cross_attention else 1) * atten
ForwardCost(f, a, cross) == BigAdd(f, BigMul(a, IF cross THEN 2 ELSE 1))

\* Faulty variant: the forward cost is used for the forward+backward row too.
BackwardCostForwardOnly(fwd) == fwd

\* 3 * forward
BackwardCost(fwd) == BigMul(fwd, 3)

(* ------------------------------------------------------------------ *)
(* Statements handed to walltime                                        *)
(* ------------------------------------------------------------------ *)

\* 'encoder_hidden_states=X' if cross_attention else ''
EncoderState(cross) == IF cross THEN "encoder_hidden_states=X" ELSE ""

\* Faulty variant: the forward row is measured with the backward statement.
FwdStmtWithBackward(cross) == <<"layer(X, ", EncoderState(cross), ")[0].sum().backward()">>

\* f'layer(X, {encoder_state})'
FwdStmt(cross) == <<"layer(X, ", EncoderState(cross), ")">>

\* f'layer(X, {encoder_state})[0].sum().backward()'
BwdStmt(cross) == <<"layer(X, ", EncoderState(cross), ")[0].sum().backward()">>

MatmulStmt == <<"a @ b">>

VectorStmt == <<"a * 1.2">>

(* ------------------------------------------------------------------ *)
(* The sweeps of the notebook                                           *)
(* ------------------------------------------------------------------ *)

\* for n in [128, 512, 2048]
MatmulSizes == <<128, 512, 2048>>

\* for dtype in (torch.float32, torch.float16)
MatmulDtypes == <<"torch.float32", "torch.float16">>

\* for n in [1024*64, 1024*256, 1024*512]
VectorSizes == <<1024 * 64, 1024 * 256, 1024 * 512>>

\* walltime(stmt, arg_dict, duration=5)
DefaultDuration == 5

Drivers == {"direct", "matmul", "vector", "layer", "var_dict"}

Lists(S) == UNION {[1..n -> S] : n \in 1..MaxLen}

(* ------------------------------------------------------------------ *)
(* Median of the samples                                                *)
(* ------------------------------------------------------------------ *)

RECURSIVE Insert(_, _)
Insert(x, sorted) ==
    IF sorted = <<>> \/ x <= Head(sorted)
    THEN <<x>> \o sorted
    ELSE <<Head(sorted)>> \o Insert(x, Tail(sorted))

RECURSIVE Sorted(_)
Sorted(seq) == IF seq = <<>> THEN <<>> ELSE Insert(Head(seq), Sorted(Tail(seq)))

\* torch.median of a one-dimensional tensor: element (n-1)//2 of the sorted
\* values, the lower of the two middle ones when n is even
TorchMedian(seq) == Sorted(seq)[((Len(seq) - 1) \div 2) + 1]

RECURSIVE SumSeq(_)
SumSeq(seq) == IF seq = <<>> THEN 0 ELSE Head(seq) + SumSeq(Tail(seq))

\* Faulty variant: Measurement.mean in place of Measurement.median.
MeanOf(seq) == SumSeq(seq) \div Len(seq)

\* Measurement.median: quantile(.5) of the sorted times, which interpolates
\* linearly between the two middle values
Median(seq) ==
    LET sorted == Sorted(seq)
        n == Len(seq)
    IN  (sorted[((n - 1) \div 2) + 1] + sorted[(n \div 2) + 1]) \div 2

\* Measurement.times: [t / number_per_run for t in raw_times]
Times(raw, n) == [k \in 1..Len(raw) |-> raw[k] \div n]


(* ------------------------------------------------------------------ *)
(* State                                                                *)
(* ------------------------------------------------------------------ *)

VARIABLES
    driver,          \* which cell runs: a direct walltime or var_dict call, or a sweep
    duration,        \* walltime's duration argument, in seconds
    speeds,          \* per-execution durations the machine shows in this run
    hidden_size, seq_lens, batch_sizes, cross_attention,  \* layer_benchmark's arguments
    pc,              \* position of the driver: loop, call, fwd, fwd+bwd, return, done,
                     \* raised; bound once a direct var_dict call has returned
    i, j,            \* positions of the outer and the inner loop
    locals,          \* the caller's frame: its bound names with their objects, in order
    args,            \* the positional arguments of the last var_dict call
    arg_dict,        \* the mapping that call returned: name -> object
    ffn, atten, forward,              \* locals of layer_benchmark
    matmul_tflops, vector, results,   \* the tables
    returned,        \* <<>>, or <<table>> once layer_benchmark has returned
    error,           \* the exception propagating out of the cell, or "none"
    hpc,             \* position of walltime: idle, overhead, probe, sample, done, raised
    min_run_time,    \* blocked_autorange's min_run_time, in ticks
    overhead,        \* median of the five timeit(0) calls
    number,          \* executions per batch
    total_time,      \* sum of the collected batch times
    raw_times,       \* the collected batch times
    execs,           \* executions of the statement in this walltime call
    failedAt,        \* the execution that raised (0: none)
    raised,          \* the error class the statement raised, or "none"
    outstanding,     \* the last batch's clock stopped with its device work unfinished
    result,          \* <<>>, or <<t>> once walltime has returned t
    began, ended     \* the walltime calls begun and returned, in order

driverVars == <<driver, duration, speeds, hidden_size, seq_lens, batch_sizes, cross_attention>>

frameVars == <<pc, i, j, locals, args, arg_dict, ffn, atten, forward>>

tableVars == <<matmul_tflops, vector, results, returned>>

timerVars == <<min_run_time, overhead, number, total_time, raw_times, execs, failedAt,
               raised, outstanding, result>>

vars == <<driverVars, frameVars, tableVars, error, hpc, timerVars, began, ended>>

Init ==
    /\ driver \in Drivers
    /\ duration \in (IF driver = "direct" THEN DurationArgs ELSE {DefaultDuration})
    /\ speeds \in (IF driver = "direct" THEN {ExecTimes}
                    ELSE IF driver = "layer" THEN LayerSpeeds
                    ELSE IF driver = "var_dict" THEN {{}} ELSE SweepSpeeds)
    /\ hidden_size \in (IF driver = "layer" THEN HiddenSizes ELSE {0})
    /\ seq_lens \in (IF driver = "layer" THEN Lists(SeqLenValues) ELSE {<<>>})
    /\ batch_sizes \in (IF driver = "layer" THEN Lists(BatchValues) ELSE {<<>>})
    /\ cross_attention \in (IF driver = "layer" THEN BOOLEAN ELSE {FALSE})
    /\ pc = "loop"
    /\ i = 1
    /\ j = 1
    /\ locals \in (IF driver = "var_dict" THEN Frames ELSE {<<>>})
    /\ args \in (IF driver = "var_dict" THEN ArgLists ELSE {<<>>})
    /\ arg_dict = <<>>
    /\ ffn = <<0>>
    /\ atten = <<0>>
    /\ forward = <<0>>
    /\ matmul_tflops = EmptyTable
    /\ vector = EmptyTable
    /\ results = EmptyTable
    /\ returned = <<>>
    /\ error = "none"
    /\ hpc = "idle"
    /\ min_run_time = 0
    /\ overhead = 0
    /\ number = 1
    /\ total_time = 0
    /\ raw_times = <<>>
    /\ execs = 0
    /\ failedAt = 0
    /\ raised = "none"
    /\ outstanding = FALSE
    /\ result = <<>>
    /\ began = <<>>
    /\ ended = <<>>

(* ------------------------------------------------------------------ *)
(* walltime: benchmark.Timer(stmt, globals).blocked_autorange(          *)
(*               min_run_time=duration).median                          *)
(* ------------------------------------------------------------------ *)

\* Faulty variant: duration is not passed on, blocked_autorange runs with its own
\* default of 0.2 seconds.
MinRunTimeNotPassed(d) == TicksPerSecond \div 5

\* min_run_time=duration
MinRunTime(d) == d * TicksPerSecond

\* The call: a fresh Timer, nothing measured yet.
Walltime(stmt) ==
    /\ hpc' = "overhead"
    /\ min_run_time' = MinRunTime(duration)
    /\ overhead' = 0
    /\ number' = 1
    /\ total_time' = 0
    /\ raw_times' = <<>>
    /\ execs' = 0
    /\ failedAt' = 0
    /\ raised' = "none"
    /\ outstanding' = FALSE
    /\ result' = <<>>
    /\ began' = Append(began, [point |-> <<i, j>>, stmt |-> stmt])
    /\ UNCHANGED ended

\* The call has returned: the driver's next line runs only then.
WalltimeReturned == hpc = "done"

\* What the clock's stop can leave behind after a batch of n executions: the
\* statements only queue work on the device, and only a synchronizing timer
\* waits for it.
StopClock(n) == IF TimerSynchronizes \/ n = 0 THEN {FALSE} ELSE BOOLEAN

\* Faulty variant: the failed execution is tried once more before the error is
\* passed on.
TimerRetry(k, e) ==
    /\ hpc' = "raised"
    /\ execs' = execs + k + 1
    /\ failedAt' = execs + k
    /\ raised' = e
    /\ UNCHANGED <<min_run_time, overhead, number, total_time, raw_times, outstanding,
                   result, began, ended>>

\* The statement raised e at its k-th execution of the current batch: nothing
\* in Timer catches it.
TimerRaise(k, e) ==
    /\ hpc' = "raised"
    /\ execs' = execs + k
    /\ failedAt' = execs + k
    /\ raised' = e
    /\ UNCHANGED <<min_run_time, overhead, number, total_time, raw_times, outstanding,
                   result, began, ended>>

\* Faulty variant: the driver catches the exception and goes on with the next point
\* (except: continue).
SweepSkip(e) ==
    LET inner == CASE driver = "matmul" -> Len(MatmulDtypes)
                   [] driver = "layer" -> Len(batch_sizes)
                   [] OTHER -> 1
        outer == CASE driver = "matmul" -> Len(MatmulSizes)
                   [] driver = "vector" -> Len(VectorSizes)
                   [] driver = "layer" -> Len(seq_lens)
                   [] OTHER -> 1
    IN  /\ error' = "none"
        /\ IF j < inner
           THEN i' = i /\ j' = j + 1 /\ pc' = "loop"
           ELSE i' = i + 1 /\ j' = 1 /\ pc' = (IF i < outer THEN "loop" ELSE "done")
        /\ UNCHANGED <<driverVars, locals, args, arg_dict, ffn, atten, forward, tableVars>>

\* The exception leaves the cell: no driver catches it.
SweepAbort(e) ==
    /\ pc' = "raised"
    /\ error' = e
    /\ UNCHANGED <<driverVars, i, j, locals, args, arg_dict, ffn, atten, forward, tableVars>>

\* What one execution of the statement being measured can take: the
\* forward+backward statement of layer_benchmark runs the forward statement
\* and then the backward pass.
StmtTimes ==
    IF driver = "layer" /\ pc = "fwd+bwd"
    THEN {d + x : d \in speeds, x \in BackwardTimes}
    ELSE speeds

\* What timeit(0) can measure on the machine of this run.
TimeitZero == IF speeds \subseteq ShortExecTimes THEN SlowClockTimes ELSE OverheadTimes

\* _estimate_block_size: overhead = median of [timeit(0) for _ in range(5)]
EstimateOverhead ==
    /\ hpc = "overhead"
    /\ \E f \in [1..5 -> TimeitZero] : overhead' = TorchMedian(f)
    /\ hpc' = "probe"
    /\ UNCHANGED <<driverVars, frameVars, tableVars, error, min_run_time, number,
                   total_time, raw_times, execs, failedAt, raised, outstanding, result,
                   began, ended>>

\* _estimate_block_size's break conditions:
\*   relative_overhead <= 1e-4 and time_taken >= min_run_time / 1000
\*   time_taken > min_run_time
\*   number * 10 > 2147483647
BlockFound(time_taken) ==
    \/ overhead * 10000 <= time_taken /\ time_taken * 1000 >= min_run_time
    \/ time_taken > min_run_time
    \/ number * 10 > 2147483647

\* Faulty variant: the batch size is left as it is.
GrowNot(n) == n

\* number *= 10
Grow(n) == n * 10

\* One round of _estimate_block_size's loop: time a batch of `number`
\* executions, keep the size or take ten times as many.
Probe ==
    /\ hpc = "probe"
    /\ \/ \E d \in StmtTimes, o \in StopClock(number) :
            /\ execs' = execs + number
            /\ outstanding' = o
            /\ IF BlockFound(number * d)
               THEN hpc' = "sample" /\ number' = number
               ELSE hpc' = "probe" /\ number' = Grow(number)
            /\ UNCHANGED <<driverVars, frameVars, tableVars, error, min_run_time,
                           overhead, total_time, raw_times, failedAt, raised, result,
                           began, ended>>
       \/ \E k \in 1..number, e \in ErrorClasses :
            /\ TimerRaise(k, e)
            /\ SweepAbort(e)

\* _threaded_measurement_loop: can_stop is True once a batch was collected
can_stop == Len(raw_times) > 0

\* while (total_time < min_run_time) or (not can_stop)
KeepSampling == total_time < min_run_time \/ ~can_stop

\* One round of _threaded_measurement_loop: time a batch and collect it.
Sample ==
    /\ hpc = "sample"
    /\ KeepSampling
    /\ \/ \E d \in StmtTimes, o \in StopClock(number) :
            /\ raw_times' = Append(raw_times, number * d)
            /\ total_time' = total_time + number * d
            /\ execs' = execs + number
            /\ outstanding' = o
            /\ UNCHANGED <<driverVars, frameVars, tableVars, error, hpc, min_run_time,
                           overhead, number, failedAt, raised, result, began, ended>>
       \/ \E k \in 1..number, e \in ErrorClasses :
            /\ TimerRaise(k, e)
            /\ SweepAbort(e)

\* Measurement(number_per_run=number, raw_times=times).median
Estimate == Median(Times(raw_times, number))

\* The loop is over: walltime returns the estimate.
Finish ==
    /\ hpc = "sample"
    /\ ~KeepSampling
    /\ result' = <<Estimate>>
    /\ hpc' = "done"
    /\ ended' = Append(ended, began[Len(began)])
    /\ UNCHANGED <<driverVars, frameVars, tableVars, error, min_run_time, overhead,
                   number, total_time, raw_times, execs, failedAt, raised, outstanding, began>>


(* ------------------------------------------------------------------ *)
(* A direct call walltime(stmt, arg_dict, duration)                     *)
(* ------------------------------------------------------------------ *)

DirectCall ==
    /\ driver = "direct"
    /\ pc = "loop"
    /\ Walltime(<<"stmt">>)
    /\ pc' = "call"
    /\ UNCHANGED <<driverVars, i, j, locals, args, arg_dict, ffn, atten, forward, tableVars,
                   error>>

DirectReturn ==
    /\ driver = "direct"
    /\ pc = "call"
    /\ WalltimeReturned
    /\ pc' = "done"
    /\ hpc' = "idle"
    /\ UNCHANGED <<driverVars, i, j, locals, args, arg_dict, ffn, atten, forward, tableVars,
                   error,
                   timerVars, began, ended>>

(* ------------------------------------------------------------------ *)
(* The matmul sweep cell                                                *)
(* ------------------------------------------------------------------ *)

\* a = torch.randn(n, n, ...); b = torch.randn(n, n, ...); t = walltime('a @ b', var_dict(a, b))
MatmulPoint ==
    /\ driver = "matmul"
    /\ pc = "loop"
    /\ LET n == MatmulSizes[i]
           dtype == MatmulDtypes[j]
           frame == <<Item("a", Object(1, Randn(<<n, n>>, dtype))),
                      Item("b", Object(2, Randn(<<n, n>>, dtype)))>>
           arguments == <<Local(frame, "a"), Local(frame, "b")>>
       IN  /\ locals' = frame
           /\ args' = arguments
           /\ arg_dict' = VarDict(frame, arguments)
    /\ Walltime(MatmulStmt)
    /\ pc' = "call"
    /\ UNCHANGED <<driverVars, i, j, ffn, atten, forward, tableVars, error>>

\* matmul_tflops[f'n={n}'][dtype] = 2*n**3 / t / 1e12; del a, b; next dtype, next n
MatmulStore ==
    /\ driver = "matmul"
    /\ pc = "call"
    /\ WalltimeReturned
    /\ LET n == MatmulSizes[i]
           dtype == MatmulDtypes[j]
           t == result[1]
       IN  matmul_tflops' = Put(matmul_tflops, Label("n=", n), dtype,
                                Cell(MatmulCost(n), t, 12))
    /\ locals' = <<>>
    /\ args' = <<>>
    /\ arg_dict' = <<>>
    /\ IF j < Len(MatmulDtypes)
       THEN i' = i /\ j' = j + 1 /\ pc' = "loop"
       ELSE i' = i + 1 /\ j' = 1 /\ pc' = (IF i < Len(MatmulSizes) THEN "loop" ELSE "done")
    /\ hpc' = "idle"
    /\ UNCHANGED <<driverVars, ffn, atten, forward, vector, results, returned, error,
                   timerVars, began, ended>>

(* ------------------------------------------------------------------ *)
(* The elementwise sweep cell                                           *)
(* ------------------------------------------------------------------ *)

\* a = torch.randn(n, device='mps'); t = walltime('a * 1.2', var_dict(a))
VectorPoint ==
    /\ driver = "vector"
    /\ pc = "loop"
    /\ LET frame == <<Item("a", Object(1, Randn(<<VectorSizes[i]>>, "torch.float32")))>>
           arguments == <<Local(frame, "a")>>
       IN  /\ locals' = frame
           /\ args' = arguments
           /\ arg_dict' = VarDict(frame, arguments)
    /\ Walltime(VectorStmt)
    /\ pc' = "call"
    /\ UNCHANGED <<driverVars, i, j, ffn, atten, forward, tableVars, error>>

\* vector[n]['TFLOPS'] = n / t / 1e12; vector[n]['GB/s'] = 8 * n / t / 1e9; next n
VectorStore ==
    /\ driver = "vector"
    /\ pc = "call"
    /\ WalltimeReturned
    /\ LET n == VectorSizes[i]
           t == result[1]
       IN  vector' = Put(Put(vector, n, "TFLOPS", Cell(Big(n), t, 12)),
                         n, "GB/s", Cell(VectorBytes(n), t, 9))
    /\ i' = i + 1
    /\ pc' = (IF i < Len(VectorSizes) THEN "loop" ELSE "done")
    /\ args' = <<>>
    /\ arg_dict' = <<>>
    /\ hpc' = "idle"
    /\ UNCHANGED <<driverVars, j, locals, ffn, atten, forward, matmul_tflops, results,
                   returned, error, timerVars, began, ended>>

(* ------------------------------------------------------------------ *)
(* layer_benchmark(layer, hidden_size, seq_lens, batch_sizes,           *)
(*                 cross_attention)                                     *)
(* ------------------------------------------------------------------ *)

\* ffn, atten, forward and X of the point, then the first walltime call
LayerPoint ==
    /\ driver = "layer"
    /\ pc = "loop"
    /\ LET h == hidden_size
           s == seq_lens[i]
           b == batch_sizes[j]
       IN  /\ ffn' = FfnCost(b, s, h)
           /\ atten' = AttenCost(b, s, h)
           /\ forward' = ForwardCost(FfnCost(b, s, h), AttenCost(b, s, h), cross_attention)
           /\ LET frame == <<Item("layer", Object(1, [module |-> "layer"])),
                              Item("hidden_size", Object(2, [int |-> hidden_size])),
                              Item("h", Object(2, [int |-> hidden_size])),
                              Item("X", Object(3, Half(Randn(<<b, s, h>>, "torch.float32"))))>>
                  arguments == <<Local(frame, "layer"), Local(frame, "X")>>
              IN  /\ locals' = frame
                  /\ args' = arguments
                  /\ arg_dict' = VarDict(frame, arguments)
    /\ Walltime(FwdStmt(cross_attention))
    /\ pc' = "fwd"
    /\ UNCHANGED <<driverVars, i, j, tableVars, error>>

\* results[f'batch={b}'][f'fwd seq_len={s}'] = forward / walltime(...), then
\* the second walltime call
LayerStoreFwd ==
    /\ driver = "layer"
    /\ pc = "fwd"
    /\ WalltimeReturned
    /\ results' = Put(results, Label("batch=", batch_sizes[j]),
                      Label("fwd seq_len=", seq_lens[i]), Cell(forward, result[1], 12))
    /\ LET arguments == <<Local(locals, "layer"), Local(locals, "X")>>
       IN  /\ args' = arguments
           /\ arg_dict' = VarDict(locals, arguments)
    /\ Walltime(BwdStmt(cross_attention))
    /\ pc' = "fwd+bwd"
    /\ UNCHANGED <<driverVars, i, j, locals, ffn, atten, forward, matmul_tflops, vector,
                   returned, error>>

\* results[f'batch={b}'][f'fwd+bwd seq_len={s}'] = 3 * forward / walltime(...);
\* next b, next s
LayerStoreBwd ==
    /\ driver = "layer"
    /\ pc = "fwd+bwd"
    /\ WalltimeReturned
    /\ results' = Put(results, Label("batch=", batch_sizes[j]),
                      Label("fwd+bwd seq_len=", seq_lens[i]),
                      Cell(BackwardCost(forward), result[1], 12))
    /\ IF j < Len(batch_sizes)
       THEN i' = i /\ j' = j + 1 /\ pc' = "loop"
       ELSE i' = i + 1 /\ j' = 1 /\ pc' = (IF i < Len(seq_lens) THEN "loop" ELSE "return")
    /\ args' = <<>>
    /\ arg_dict' = <<>>
    /\ hpc' = "idle"
    /\ UNCHANGED <<driverVars, locals, ffn, atten, forward, matmul_tflops, vector,
                   returned, error, timerVars, began, ended>>

\* return pd.DataFrame(results)
LayerReturn ==
    /\ driver = "layer"
    /\ pc = "return"
    /\ returned' = <<results>>
    /\ pc' = "done"
    /\ UNCHANGED <<driverVars, i, j, locals, args, arg_dict, ffn, atten, forward,
                   matmul_tflops, vector, results, error, hpc, timerVars, began, ended>>

(* ------------------------------------------------------------------ *)
(* A direct call of var_dict from a frame                              *)
(* ------------------------------------------------------------------ *)

\* The call either raises IndexError out of the cell or returns the mapping.
VarDictCall ==
    /\ driver = "var_dict"
    /\ pc = "loop"
    /\ IF VarDictRaises(locals, args)
       THEN /\ pc' = "raised"
            /\ error' = "IndexError"
            /\ arg_dict' = arg_dict
       ELSE /\ pc' = "bound"
            /\ error' = error
            /\ arg_dict' = VarDict(locals, args)
    /\ UNCHANGED <<driverVars, i, j, locals, args, ffn, atten, forward, tableVars, hpc,
                   timerVars, began, ended>>

(* ------------------------------------------------------------------ *)
(* Specification                                                        *)
(* ------------------------------------------------------------------ *)

Next ==
    \/ DirectCall
    \/ DirectReturn
    \/ MatmulPoint
    \/ MatmulStore
    \/ VectorPoint
    \/ VectorStore
    \/ LayerPoint
    \/ LayerStoreFwd
    \/ LayerStoreBwd
    \/ LayerReturn
    \/ VarDictCall
    \/ EstimateOverhead
    \/ Probe
    \/ Sample
    \/ Finish

Spec == Init /\ [][Next]_vars

\* The runs checked for termination: layer_benchmark sweeps over short lists.
FairInit ==
    /\ Init
    /\ Len(seq_lens) <= MaxFairLen
    /\ Len(batch_sizes) <= MaxFairLen

\* walltime is a plain sequential call: a round of its loops that can run
\* does run (every execution of the statement ends, by returning or raising).
FairSpec ==
    /\ FairInit
    /\ [][Next]_vars
    /\ WF_vars(EstimateOverhead)
    /\ WF_vars(Probe)
    /\ WF_vars(Sample)
    /\ WF_vars(Finish)


(* ------------------------------------------------------------------ *)
(* Properties                                                           *)
(* ------------------------------------------------------------------ *)

\* The walltime call in progress or last returned, and its place in the sweep.
CurrentCall == began[Len(began)]

\* Number of collected batches shorter than x / not longer than x.
Below(x) == Cardinality({k \in 1..Len(raw_times) : raw_times[k] < x})
UpTo(x) == Cardinality({k \in 1..Len(raw_times) : raw_times[k] <= x})

\* The r-th smallest collected batch time, found by counting.
OrderStat(r) ==
    CHOOSE v \in {raw_times[k] : k \in 1..Len(raw_times)} : Below(v) < r /\ r <= UpTo(v)

\* C1: walltime has returned an estimate only if the batch times it collected
\* add up to at least min_duration (duration seconds, 5 by default).
C1_MinDurationSpent ==
    result # <<>> => SumSeq(raw_times) >= duration * TicksPerSecond

\* C1 witness: walltime returned after several batches, the batches before the
\* last one adding up to less than min_duration.
C1_Witness ==
    /\ result # <<>>
    /\ Len(raw_times) >= 3
    /\ SumSeq(SubSeq(raw_times, 1, Len(raw_times) - 1)) < duration * TicksPerSecond

Distinct(list) == \A k, l \in 1..Len(list) : k # l => list[k] # list[l]

\* The row of layer_benchmark's table that the walltime call of pc fills.
LayerRow(s) ==
    IF CurrentCall.stmt[3] = ")" THEN Label("fwd seq_len=", s) ELSE Label("fwd+bwd seq_len=", s)

\* A table the notebook can read holds a cell of the sweep point of the failed
\* walltime call, or a table holds the cell that call was to fill.
FailedPointStored ==
    CASE driver = "matmul" ->
            HasCell(matmul_tflops, Label("n=", MatmulSizes[i]), MatmulDtypes[j])
      [] driver = "vector" -> VectorSizes[i] \in DOMAIN vector
      [] driver = "layer" ->
            \/ returned # <<>>
            \/ /\ Distinct(seq_lens)
               /\ Distinct(batch_sizes)
               /\ HasCell(results, Label("batch=", batch_sizes[j]), LayerRow(seq_lens[i]))
      [] OTHER -> FALSE

\* C2: once the statement has raised, walltime has not executed it again, the
\* same error class leaves the cell, walltime has returned no latency, and no
\* table the notebook can read holds a cell of that sweep point (matmul_tflops,
\* vector, the table layer_benchmark returns), nor does layer_benchmark's
\* local table hold the cell the failed call was to fill.
C2_FailurePropagates ==
    failedAt > 0 =>
        /\ execs = failedAt
        /\ hpc = "raised"
        /\ pc = "raised"
        /\ error = raised
        /\ raised \in ErrorClasses
        /\ result = <<>>
        /\ Len(ended) = Len(began) - 1
        /\ ~FailedPointStored

\* C2 witness: the statement raised on an execution after its first one, in a
\* sweep that had already stored cells.
C2_Witness ==
    /\ failedAt > 1
    /\ error = "TypeError"
    /\ driver = "matmul"
    /\ Len(ended) >= 1

\* C3: the value walltime returns is the median of the per-batch means
\* (batch time / number): the middle one of an odd number of samples, midway
\* between the two middle ones of an even number.
C3_MedianOfBatchMeans ==
    result # <<>> =>
        LET n == Len(raw_times)
            m == result[1]
        IN  IF n % 2 = 1
            THEN m * number = OrderStat((n + 1) \div 2)
            ELSE 2 * m * number = OrderStat(n \div 2) + OrderStat((n \div 2) + 1)

\* C3 witness: a returned estimate that is neither the mean, nor the smallest,
\* nor the last of its samples.
C3_Witness ==
    /\ result # <<>>
    /\ Len(raw_times) = 3
    /\ result[1] * number * 3 # SumSeq(raw_times)
    /\ \E k \in 1..3 : raw_times[k] < result[1] * number
    /\ raw_times[3] # result[1] * number


\* C4 (as claimed): no batch's clock stops while work the batch queued on the
\* device is still outstanding.
C4_BarrierBeforeClockStops == ~outstanding

\* C5: once the statement of a sweep point has raised, the sweep is over: the
\* error has left the cell, layer_benchmark has returned no table, the failed
\* point has no cell, and no later step begins another walltime call or
\* writes a cell.
C5_FailedPointAbortsSweep ==
    /\ [](raised # "none" =>
            /\ pc = "raised"
            /\ error = raised
            /\ returned = <<>>
            /\ ~FailedPointStored)
    /\ [][raised # "none" =>
            /\ began' = began
            /\ <<matmul_tflops, vector, results, returned>>' =
                    <<matmul_tflops, vector, results, returned>>]_vars

\* C5 witness: layer_benchmark failed at the forward+backward statement of a
\* point that is not the last one of its sweep.
C5_Witness ==
    /\ driver = "layer"
    /\ pc = "raised"
    /\ CurrentCall.stmt = <<"layer(X, ", "", ")[0].sum().backward()">>
    /\ Len(seq_lens) = 2
    /\ i = 1


\* The cells of a table, as <<column, row>> pairs.
CellsOf(tbl) ==
    {cr \in (DOMAIN tbl) \X UNION {DOMAIN tbl[c] : c \in DOMAIN tbl} :
        cr[2] \in DOMAIN tbl[cr[1]]}

Values(list) == {list[k] : k \in 1..Len(list)}

\* C6: for seq_lens and batch_sizes of distinct values, the table a completed
\* layer_benchmark call returns has exactly |S|*|B| cells whose row label starts
\* 'fwd seq_len=' and |S|*|B| whose row label starts 'fwd+bwd seq_len=', one of
\* each per (s, b), in column 'batch={b}' and rows 'fwd seq_len={s}' and
\* 'fwd+bwd seq_len={s}': for s = 128 and b = 2, column 'batch=2' and rows
\* 'fwd seq_len=128', 'fwd+bwd seq_len=128'.
C6_TableShape ==
    (returned # <<>> /\ Distinct(seq_lens) /\ Distinct(batch_sizes)) =>
        LET tbl == returned[1]
            points == Len(seq_lens) * Len(batch_sizes)
        IN  /\ Cardinality({cr \in CellsOf(tbl) : cr[2][1] = "fwd seq_len="}) = points
            /\ Cardinality({cr \in CellsOf(tbl) : cr[2][1] = "fwd+bwd seq_len="}) = points
            /\ Cardinality(CellsOf(tbl)) = 2 * points
            /\ \A s \in Values(seq_lens), b \in Values(batch_sizes) :
                /\ HasCell(tbl, <<"batch=">> \o Str(b), <<"fwd seq_len=">> \o Str(s))
                /\ HasCell(tbl, <<"batch=">> \o Str(b), <<"fwd+bwd seq_len=">> \o Str(s))
            /\ (128 \in Values(seq_lens) /\ 2 \in Values(batch_sizes)) =>
                /\ HasCell(tbl, <<"batch=", "2">>, <<"fwd seq_len=", "1", "2", "8">>)
                /\ HasCell(tbl, <<"batch=", "2">>, <<"fwd+bwd seq_len=", "1", "2", "8">>)

\* C6 witness: layer_benchmark has returned the table of S = [128, 512] and
\* B = [2, 4], 4 forward cells and 4 forward+backward cells.
C6_Witness ==
    /\ returned # <<>>
    /\ seq_lens = <<128, 512>>
    /\ batch_sizes = <<2, 4>>
    /\ Cardinality(CellsOf(returned[1])) = 8

\* The walltime calls a driver makes for one sweep point.
CallsPerPoint == IF driver = "layer" THEN 2 ELSE 1

\* The sweep points of the driver.
PointCount ==
    CASE driver = "matmul" -> Len(MatmulSizes) * Len(MatmulDtypes)
      [] driver = "vector" -> Len(VectorSizes)
      [] driver = "layer" -> Len(seq_lens) * Len(batch_sizes)
      [] OTHER -> 1

\* C7: the walltime calls run one after the other: at most the last call begun
\* has not returned, and it is the one in progress; no (sweep point, statement)
\* is measured twice and a finished sweep has measured each once; in
\* layer_benchmark the calls of a point are the forward statement and then,
\* after it returned, the forward+backward statement.
C7_OneMeasurementAtATime ==
    /\ Len(ended) <= Len(began)
    /\ Len(began) <= Len(ended) + 1
    /\ ended = SubSeq(began, 1, Len(ended))
    /\ (Len(began) = Len(ended) + 1) <=> (hpc \in {"overhead", "probe", "sample", "raised"})
    /\ \A k, l \in 1..Len(began) : k # l => began[k] # began[l]
    /\ pc = "done" => Len(ended) = PointCount * CallsPerPoint
    /\ driver = "layer" =>
        \A k \in 1..Len(began) :
            /\ k % 2 = 1 => began[k].stmt[3] = ")"
            /\ k % 2 = 0 =>
                /\ began[k].stmt[3] = ")[0].sum().backward()"
                /\ began[k].point = began[k - 1].point
                /\ k - 1 <= Len(ended)

\* C7 witness: the forward+backward call of the second point of a
\* layer_benchmark sweep is in progress, the three calls before it returned.
C7_Witness ==
    /\ driver = "layer"
    /\ Len(began) = 4
    /\ Len(ended) = 3
    /\ hpc = "sample"


\* The element size of the tensor the elementwise sweep builds for n elements.
VectorElementSize(n) == ElementSize(Randn(<<n>>, "torch.float32"))

\* The latency walltime returned for the point the elementwise sweep has just
\* stored is the t of both of its cells.
VectorLatencyStored ==
    (driver = "vector" /\ pc \in {"loop", "done"} /\ i > 1) =>
        LET n == VectorSizes[i - 1]
        IN  /\ result # <<>>
            /\ vector[n]["GB/s"].t = result[1]
            /\ vector[n]["TFLOPS"].t = result[1]

\* C8 (as claimed): the 'GB/s' cell of every n of the elementwise sweep is
\* k*n / t / 1e9 with k the element size of the tensor, t the measured latency.
C8_BandwidthIsElementSizeTimesN ==
    /\ VectorLatencyStored
    /\ \A n \in DOMAIN vector :
        /\ vector[n]["GB/s"].cost = Big(VectorElementSize(n) * n)
        /\ vector[n]["GB/s"].scale = 9

\* C8 (amended): the 'GB/s' cell of every n of the elementwise sweep is
\* 8*n / t / 1e9, which is 2*k*n / t for the float32 tensor's element size
\* k = 4 (every element is read once and written once), t the measured latency.
C8_BandwidthIsTwiceElementSizeTimesN ==
    /\ VectorLatencyStored
    /\ \A n \in DOMAIN vector :
        /\ VectorElementSize(n) = 4
        /\ vector[n]["GB/s"].cost = Big(2 * VectorElementSize(n) * n)
        /\ vector[n]["GB/s"].cost = Big(8 * n)
        /\ vector[n]["GB/s"].scale = 9

\* C8 witness: the elementwise sweep has stored 4,194,304 bytes over the
\* measured latency for n = 524288.
C8_Witness ==
    /\ driver = "vector"
    /\ pc = "done"
    /\ vector[524288]["GB/s"] = [cost |-> <<304, 194, 4>>, t |-> result[1], scale |-> 9]

\* C9: the numerator of every cell of the matmul sweep is 2*a*b*c for the
\* n-by-n times n-by-n product (a = b = c = n): 4,194,304 for n = 128,
\* 268,435,456 for n = 512, 17,179,869,184 for n = 2048; it is the same for
\* both dtypes of a size and whatever latency was measured.
C9_MatmulCost ==
    \A c \in DOMAIN matmul_tflops :
        \E n \in Values(MatmulSizes) :
            /\ c = <<"n=">> \o Str(n)
            /\ \A dtype \in DOMAIN matmul_tflops[c] :
                LET cell == matmul_tflops[c][dtype]
                IN  /\ cell.cost = BigMul(BigMul(BigMul(Big(2), n), n), n)
                    /\ cell.scale = 12
                    /\ {cell.t} \in SweepSpeeds
                    /\ n = 128 => cell.cost = <<304, 194, 4>>
                    /\ n = 512 => cell.cost = <<456, 435, 268>>
                    /\ n = 2048 => cell.cost = <<184, 869, 179, 17>>

\* C9 witness: the finished matmul sweep holds the cells of all three sizes
\* and both dtypes.
C9_Witness ==
    /\ driver = "matmul"
    /\ pc = "done"
    /\ Cardinality(CellsOf(matmul_tflops)) = 6
    /\ matmul_tflops[<<"n=", "2", "0", "4", "8">>]["torch.float16"].cost = <<184, 869, 179, 17>>

\* C10: at every sweep point of layer_benchmark, ffn is 16*b*s*h^2 and atten is
\* 4*b*h*s^2 + 8*b*s*h^2 (in FLOP; the code keeps both divided by 1e12); for
\* h = 1024, s = 128, b = 2 they are 4,294,967,296 and 2,281,701,376.
C10_LayerCosts ==
    (driver = "layer" /\ began # <<>>) =>
        LET h == hidden_size
            s == seq_lens[CurrentCall.point[1]]
            b == batch_sizes[CurrentCall.point[2]]
        IN  /\ ffn = BigMul(Big(h * h), 16 * b * s)
            /\ atten = BigAdd(BigMul(Big(s * s), 4 * b * h), BigMul(Big(h * h), 8 * b * s))
            /\ (h = 1024 /\ s = 128 /\ b = 2) =>
                /\ ffn = <<296, 967, 294, 4>>
                /\ atten = <<376, 701, 281, 2>>

\* C10 witness: layer_benchmark is at the point h = 1024, s = 128, b = 2.
C10_Witness ==
    /\ driver = "layer"
    /\ pc = "fwd"
    /\ hidden_size = 1024
    /\ seq_lens[i] = 128
    /\ batch_sizes[j] = 2
    /\ ffn = <<296, 967, 294, 4>>

\* C11: at every sweep point of layer_benchmark the forward cost is ffn + atten
\* without cross_attention and ffn + 2*atten with it (one more attention
\* term), it is the numerator of the point's stored forward cell, and the
\* measured statement names encoder_hidden_states=X exactly when
\* cross_attention is set: 'layer(X, encoder_hidden_states=X)' against
\* 'layer(X, )'.
C11_CrossAttentionCost ==
    (driver = "layer" /\ began # <<>>) =>
        LET s == seq_lens[CurrentCall.point[1]]
            b == batch_sizes[CurrentCall.point[2]]
            col == <<"batch=">> \o Str(b)
            row == <<"fwd seq_len=">> \o Str(s)
        IN  /\ ~cross_attention =>
                /\ forward = BigAdd(ffn, atten)
                /\ SubSeq(CurrentCall.stmt, 1, 2) = <<"layer(X, ", "">>
            /\ cross_attention =>
                /\ forward = BigAdd(BigAdd(ffn, atten), atten)
                /\ forward # BigAdd(ffn, atten)
                /\ SubSeq(CurrentCall.stmt, 1, 2) = <<"layer(X, ", "encoder_hidden_states=X">>
            /\ \A k \in 1..Len(began) :
                began[k].stmt[2] = (IF cross_attention THEN "encoder_hidden_states=X" ELSE "")
            /\ pc \in {"fwd+bwd", "return", "done"} => results[col][row].cost = forward

\* C11 witness: a decoder sweep (cross_attention) has stored a forward cell
\* with the cost ffn + 2*atten and measures the forward+backward statement
\* with the encoder state.
C11_Witness ==
    /\ driver = "layer"
    /\ cross_attention
    /\ pc = "fwd+bwd"
    /\ hidden_size = 1024
    /\ seq_lens[i] = 128
    /\ batch_sizes[j] = 2
    /\ forward = <<48, 370, 858, 8>>
    /\ CurrentCall.stmt = <<"layer(X, ", "encoder_hidden_states=X", ")[0].sum().backward()">>

\* The rows of a sequence length in layer_benchmark's table.
FwdRow(s) == <<"fwd seq_len=">> \o Str(s)
BwdRow(s) == <<"fwd+bwd seq_len=">> \o Str(s)

\* C12: in layer_benchmark's table the numerator of every forward+backward
\* cell is 3 times the numerator of the forward cell of the same point, with
\* or without cross-attention, and the cell just stored is divided by the
\* latency walltime returned for the forward+backward statement.
C12_BackwardIsThreeTimesForward ==
    driver = "layer" =>
        /\ \A col \in DOMAIN results : \A s \in Values(seq_lens) :
            BwdRow(s) \in DOMAIN results[col] =>
                /\ FwdRow(s) \in DOMAIN results[col]
                /\ results[col][BwdRow(s)].cost =
                        BigAdd(results[col][FwdRow(s)].cost,
                               BigAdd(results[col][FwdRow(s)].cost,
                                      results[col][FwdRow(s)].cost))
                /\ results[col][BwdRow(s)].scale = results[col][FwdRow(s)].scale
        /\ (hpc = "idle" /\ began # <<>>) =>
            LET s == seq_lens[CurrentCall.point[1]]
                b == batch_sizes[CurrentCall.point[2]]
                col == <<"batch=">> \o Str(b)
            IN  /\ CurrentCall.stmt[3] = ")[0].sum().backward()"
                /\ ended[Len(ended)] = CurrentCall
                /\ results[col][BwdRow(s)].t = result[1]

\* C12 witness: a stored point whose forward+backward latency differs from
\* its forward latency, in a sweep with cross-attention.
C12_Witness ==
    /\ driver = "layer"
    /\ cross_attention
    /\ hpc = "idle"
    /\ began # <<>>
    /\ LET s == seq_lens[CurrentCall.point[1]]
           b == batch_sizes[CurrentCall.point[2]]
           col == <<"batch=">> \o Str(b)
       IN  /\ results[col][BwdRow(s)].t = result[1]
           /\ results[col][FwdRow(s)].t # result[1]
           /\ results[col][BwdRow(s)].cost # results[col][FwdRow(s)].cost

\* var_dict has returned a mapping for args from the frame in locals.
VarDictReturned == args # <<>> /\ ~(driver = "var_dict" /\ pc \in {"loop", "raised"})

\* The positions of the frame whose object is the very object obj.
Referring(obj) == {q \in 1..Len(locals) : locals[q].val.id = obj.id}

\* C13: the mapping var_dict returned binds every positional argument under
\* the name of a caller local that refers to that identical object and maps
\* the name to that very object (same identity: no copy); every name of the
\* mapping is such a name, so a local that is equal by value but another
\* object never names an argument; and the caller's locals are as they were
\* before the call.
C13_VarDictBindsByIdentity ==
    /\ [](VarDictReturned =>
            /\ \A k \in 1..Len(args) :
                \E q \in Referring(args[k]) :
                    /\ locals[q].name \in DOMAIN arg_dict
                    /\ arg_dict[locals[q].name].id = args[k].id
                    /\ arg_dict[locals[q].name] = locals[q].val
            /\ \A name \in DOMAIN arg_dict :
                \E k \in 1..Len(args) : \E q \in Referring(args[k]) :
                    /\ locals[q].name = name
                    /\ arg_dict[name].id = args[k].id
            /\ Cardinality(DOMAIN arg_dict) = Cardinality({args[k].id : k \in 1..Len(args)}))
    /\ [][(driver = "var_dict" \/ pc = "fwd") => locals' = locals]_vars

\* C13 witness: var_dict returned the mapping of an argument while an earlier
\* caller local holds an equal object that is not the argument.
C13_Witness ==
    /\ driver = "var_dict"
    /\ pc = "bound"
    /\ Len(args) = 1
    /\ Len(locals) >= 2
    /\ locals[1].val.value = args[1].value
    /\ locals[1].val.id # args[1].id
    /\ locals[2].val.id = args[1].id
    /\ DOMAIN arg_dict = {locals[2].name}

\* C15: of the caller locals that refer to the object of an argument, the
\* mapping var_dict returned holds the first one in the order of the frame
\* and none of the others; and a direct call raises (IndexError), returning
\* no mapping, exactly when some argument is the object of no caller local.
C15_FirstAliasOrIndexError ==
    /\ VarDictReturned =>
        \A k \in 1..Len(args) : \A q \in Referring(args[k]) :
            (locals[q].name \in DOMAIN arg_dict) <=>
                (\A r \in Referring(args[k]) : q <= r)
    /\ (driver = "var_dict" /\ pc # "loop") =>
        /\ (pc = "raised") <=> (\E k \in 1..Len(args) : Referring(args[k]) = {})
        /\ pc = "raised" => (error = "IndexError" /\ arg_dict = <<>>)
        /\ pc # "raised" => (pc = "bound" /\ error = "none")

\* C15 witness: two caller locals refer to the object passed and the mapping
\* returned has the first of them alone.
C15_Witness ==
    /\ driver = "var_dict"
    /\ pc = "bound"
    /\ Len(args) = 1
    /\ Len(locals) = 3
    /\ Referring(args[1]) = {2, 3}
    /\ DOMAIN arg_dict = {"y"}

\* C15 witness of the other case: an argument that no caller local refers to.
C15_RaisedWitness ==
    /\ driver = "var_dict"
    /\ pc = "raised"
    /\ error = "IndexError"
    /\ Len(args) = 2
    /\ Referring(args[1]) # {}
    /\ Referring(args[2]) = {}

\* The phase of the measurement: 1 probing the batch size (the overhead
\* estimate belongs to it), 2 steady-state sampling, 3 over.
Phase(h) ==
    CASE h \in {"overhead", "probe"} -> 1
      [] h = "sample" -> 2
      [] OTHER -> 3

\* C14: within one walltime call the phases follow probing -> sampling -> done
\* and never go back; a probing round that does not end probing makes the
\* batch size larger and none makes it smaller; from the start of sampling
\* the batch size is fixed, and every collected sample is the time of one
\* batch of that size, collected while sampling; and a call in progress
\* reaches done unless the statement raises.
C14_PhasesInOrder ==
    /\ [](Phase(hpc) = 1 => raw_times = <<>>)
    /\ [](hpc = "done" => (raw_times # <<>> /\ result # <<>>))
    /\ [][began' = began =>
            /\ Phase(hpc') >= Phase(hpc)
            /\ (hpc = "sample" /\ hpc' # "sample") => hpc' \in {"done", "raised"}
            /\ (hpc = "probe" /\ hpc' = "probe") => number' > number
            /\ Phase(hpc) = 1 => number' >= number
            /\ Phase(hpc) >= 2 => number' = number
            /\ raw_times' # raw_times =>
                /\ hpc = "sample"
                /\ hpc' = "sample"
                /\ SubSeq(raw_times', 1, Len(raw_times)) = raw_times
                /\ Len(raw_times') = Len(raw_times) + 1
                /\ execs' = execs + number]_vars
    /\ (Phase(hpc) \in {1, 2}) ~> (hpc = "done" \/ raised # "none")

\* C14 witness: a call that probed two batch sizes, then collected samples,
\* and is done.
C14_Witness ==
    /\ hpc = "done"
    /\ number = 10
    /\ Len(raw_times) = 2
    /\ execs = 1 + 10 + 10 + 10

====
